---- MODULE Spec2Model ----
(***************************************************************************)
(* GlavnaQt: the tagged background-task pool (glavnaqt/core/               *)
(* thread_manager.py), the adaptive font-size search (glavnaqt/ui/         *)
(* font_scaling.py), the layout adjustment of the main window              *)
(* (glavnaqt/ui/main_window.py, glavnaqt/ui/widget_adjustment.py), the     *)
(* status bar manager (glavnaqt/ui/status_bar_manager.py) and the resize   *)
(* debounce (glavnaqt/core/event_handling.py), as state machines.          *)
(*                                                                         *)
(* Spec     the task pool: client threads calling submit_task,             *)
(*          wait_for_tagged_tasks and shutdown, and the pool's worker      *)
(*          threads executing TaskRunnable.run.                            *)
(* HistorySpec  submit_task, the worker threads and shutdown, with the     *)
(*          outcome of every ended task recorded.                          *)
(* FairSpec HistorySpec with weak fairness on the worker threads' steps.   *)
(* ApiSpec  the pool with the client calls that return no handle.          *)
(* FitSpec  calculate_scaling_factor, one loop iteration per step, over a  *)
(*          bounded family of inputs and text-measurement functions.       *)
(* FairFitSpec  FitSpec with weak fairness on the loop's steps.            *)
(* RefitSpec    FitSpec with a second call on the arguments of the first.  *)
(* LayoutSpec   the main window: the geometry timer, resize events,        *)
(*          splitter movements and update_ui, each running the layout      *)
(*          adjustment pass over the sections.                             *)
(* DefaultSpec  the pool with every task submitted with the default        *)
(*          completion callback.                                           *)
(* StatusSpec   the status bar manager: update requests, their pool tasks, *)
(*          the queued status_updated signal and the resize calls.         *)
(* DebounceSpec the resize timer and the final-size timer of the window,   *)
(*          with time passing in steps; FairDebounceSpec adds weak         *)
(*          fairness on the clock and the due timers.                      *)
(* LockSpec     the pool at the level of its two mutexes; FairLockSpec     *)
(*          adds weak fairness on every thread's steps.                    *)
(***************************************************************************)
EXTENDS Integers, Sequences, FiniteSets, TLC

\* ------------------------------------------------------------------ bounds
MaxTasks == 2
NWaiters == 2
MaxWorkers == 1
MaxArgs == 1

\* calculate_scaling_factor: the inputs drawn
MaxWidth == 16
MaxRef == 4
MaxFont == 4
BigFont == 27
MaxNum == 8
MaxDen == 2

\* the layout: the window widths drawn
MaxScale == 3

\* the status bar: the updates requested and the pool's threads
MaxUpdates == 2
MaxStatusWorkers == 2

TaskIds == 1..MaxTasks
Waiters == 1..NWaiters

\* A falsy tag (None or ""): `if tag:` skips the bookkeeping for it.
NoTag == ""
Tags == {"x", "y"}
TagArgs == Tags \cup {NoTag}

VARIABLES
    is_shutting_down,     \* ThreadManager.is_shutting_down
    active_tasks_by_tag,  \* ThreadManager.active_tasks_by_tag: tag -> count
    tstate,               \* per task: where its TaskRunnable is
    ttag,                 \* TaskRunnable.tag
    ton_finished,         \* TaskRunnable.on_finished: "default" | "custom"
    fnOutcome,            \* how self.function(...) ended: "none" | "returned" | "raised"
    history,              \* whether fnOutcome is kept once run() has ended and
                          \* cbFaults is recorded (the specifications whose
                          \* claims read them do; behaviour does not depend on it)
    cbCalls,              \* how often run() has invoked on_finished
    escaped,              \* an exception has propagated out of some run()
    cbFaults,             \* "none", or how the work function had ended in the
                          \* latest task whose on_finished callback raised
    nextTask,             \* id of the next TaskRunnable to be constructed
    wpc,                  \* per waiting thread: position in wait_for_tagged_tasks
    wtag,                 \* the tag a waiting thread passed
    wreleased,            \* the thread's latest wake-up came from the removal
                          \* of its own tag and it has not blocked again
    shutdownPc,           \* position of the thread calling shutdown()
    lastCall,             \* the latest client call that returned no handle
    fit,                  \* the state of one calculate_scaling_factor call
    ui,                   \* the MainWindow: its sections and their geometry
    sbm,                  \* the StatusBarManager, its label and its signal
    rsz,                  \* the window's resize timer and the recomputes it drives
    lk                    \* the pool's two mutexes and the threads that take them

poolVars == <<is_shutting_down, active_tasks_by_tag, tstate, ttag, ton_finished,
              fnOutcome, cbCalls, escaped, cbFaults, nextTask, wpc, wtag,
              wreleased, shutdownPc, lastCall, history>>
auxVars == <<sbm, rsz, lk>>
vars == <<poolVars, fit, ui, auxVars>>

taskVars == <<tstate, ttag, ton_finished, fnOutcome, cbCalls, nextTask>>
waitVars == <<wpc, wtag, wreleased>>
faultVars == <<escaped, cbFaults>>

\* ------------------------------------------------------ the tag -> count map

\* defaultdict(int) with no key
EmptyMap == [k \in {} |-> 0]

\* `tag in self.active_tasks_by_tag`
HasTag(m, tag) == tag \in DOMAIN m

SetToOne(m, tag) == [k \in DOMAIN m \cup {tag} |-> IF k = tag THEN 1 ELSE m[k]]

\* `self.active_tasks_by_tag[tag] += 1` on a defaultdict(int)
Increment(m, tag) ==
    [k \in DOMAIN m \cup {tag} |->
        IF k = tag THEN (IF HasTag(m, tag) THEN m[tag] + 1 ELSE 1) ELSE m[k]]

\* `self.active_tasks_by_tag.pop(tag, None)`
Pop(m, tag) == [k \in DOMAIN m \ {tag} |-> m[k]]

\* submit_task: `if tag: ... self.active_tasks_by_tag[tag] += 1`
SubmitCount(m, tag) == IF tag # NoTag THEN Increment(m, tag) ELSE m

KeepsZeroEntry(m, tag) ==
    IF tag # NoTag /\ HasTag(m, tag) THEN [m EXCEPT ![tag] = @ - 1] ELSE m

\* task_finished_callback: the map it leaves
task_finished_callback(m, tag) ==
    IF tag # NoTag /\ HasTag(m, tag)
    THEN IF m[tag] - 1 <= 0 THEN Pop(m, tag) ELSE [m EXCEPT ![tag] = @ - 1]
    ELSE m

\* task_finished_callback: whether it calls tag_condition.wakeAll()
CallbackWakes(m, tag) == tag # NoTag /\ HasTag(m, tag) /\ m[tag] - 1 <= 0

\* ------------------------------------------------------------ TaskRunnable.run

CallbackOnlyOnSuccess(fn) == IF fn = "raised" THEN 0 ELSE 1

CallbackAgainOnFault(fn) == IF fn = "raised" THEN 2 ELSE 1

\* run(): the `finally:` block executes after a return and after a caught
\* exception alike, and on_finished is always set (submit_task passes
\* `on_finished or self.task_finished_callback`), so it is invoked once.
FinallyCalls(fn) == IF fn \in {"returned", "raised"} THEN 1 ELSE 0

CallbackFaultPropagates(cbRaises) == cbRaises

\* run(): `try: self.on_finished(self.tag) except Exception` catches a fault of
\* the callback; nothing propagates out of run().
RunPropagates(cbRaises) == FALSE

\* ------------------------------------------------------------------- Init

PoolInit ==
    /\ is_shutting_down = FALSE
    /\ active_tasks_by_tag = EmptyMap
    /\ tstate = [t \in TaskIds |-> "unused"]
    /\ ttag = [t \in TaskIds |-> NoTag]
    /\ ton_finished = [t \in TaskIds |-> "default"]
    /\ fnOutcome = [t \in TaskIds |-> "none"]
    /\ cbCalls = [t \in TaskIds |-> 0]
    /\ escaped = FALSE
    /\ cbFaults = "none"
    /\ nextTask = 1
    /\ wpc = [w \in Waiters |-> "idle"]
    /\ wtag = [w \in Waiters |-> NoTag]
    /\ wreleased = [w \in Waiters |-> FALSE]
    /\ shutdownPc = "idle"
    /\ lastCall = [op |-> "none", outcome |-> "none", flag |-> FALSE]

FitIdle == [pc |-> "idle"]

\* No window has been constructed.
NoWindow == [pc |-> "none"]

\* No StatusBarManager, no resize timer, no thread at a mutex.
NoAux == [pc |-> "none"]
AuxIdle == sbm = NoAux /\ rsz = NoAux /\ lk = NoAux

Init == PoolInit /\ history = FALSE /\ fit = FitIdle /\ ui = NoWindow /\ AuxIdle

\* The same state, with the outcome of every ended task recorded.
HistoryInit == PoolInit /\ history = TRUE /\ fit = FitIdle /\ ui = NoWindow /\ AuxIdle

\* --------------------------------------------------------------- submit_task

\* submit_task while the flag is set: warning, `return None`.
SubmitRejected ==
    /\ is_shutting_down
    /\ lastCall' = [op |-> "submit_task", outcome |-> "None", flag |-> TRUE]
    /\ UNCHANGED <<is_shutting_down, active_tasks_by_tag, taskVars, waitVars,
                   faultVars, shutdownPc, history, fit, ui, auxVars>>

\* TaskRunnable(task, on_finished=..., tag=tag, *args, **kwargs) against
\* __init__(self, function, on_finished=None, tag=None, *args, **kwargs): a
\* positional argument of the task lands on the parameter on_finished, which
\* the call also passes by keyword, and the call raises TypeError.
ConstructorRaises(nargs) == nargs > 0

\* submit_task with positional arguments for the task: the constructor raises
\* before the count is touched; `except Exception` logs it and returns None.
SubmitTypeError(nargs) ==
    /\ ~is_shutting_down
    /\ ConstructorRaises(nargs)
    /\ lastCall' = [op |-> "submit_task", outcome |-> "None", flag |-> FALSE]
    /\ UNCHANGED <<is_shutting_down, active_tasks_by_tag, taskVars, waitVars,
                   faultVars, shutdownPc, history, fit, ui, auxVars>>

\* submit_task accepted: the flag is clear, the runnable is constructed, the
\* tag's count incremented under tag_mutex, the runnable handed to
\* thread_pool.start and returned. The caller holds is_shutting_down_mutex
\* throughout, and what other threads can see of the call is the count, so the
\* call is one step.
SubmitAccepted(tag, cb, nargs) ==
    /\ ~is_shutting_down
    /\ ~ConstructorRaises(nargs)
    /\ nextTask <= MaxTasks
    /\ tstate' = [tstate EXCEPT ![nextTask] = "queued"]
    /\ ttag' = [ttag EXCEPT ![nextTask] = tag]
    /\ ton_finished' = [ton_finished EXCEPT ![nextTask] = cb]
    /\ active_tasks_by_tag' = SubmitCount(active_tasks_by_tag, tag)
    /\ nextTask' = nextTask + 1
    /\ UNCHANGED <<is_shutting_down, fnOutcome, cbCalls, waitVars, faultVars,
                   shutdownPc, lastCall, history, fit, ui, auxVars>>

\* ------------------------------------------------------- the worker threads

Busy == {t \in TaskIds : tstate[t] \in {"running", "finishing"}}

\* QThreadPool: the runnables queued (all of one priority) start in the order
\* of their submission, each when fewer than max_workers threads are active.
TaskStart(t) ==
    /\ tstate[t] = "queued"
    /\ \A u \in TaskIds : u < t => tstate[u] # "queued"
    /\ Cardinality(Busy) < MaxWorkers
    /\ tstate' = [tstate EXCEPT ![t] = "running"]
    /\ UNCHANGED <<is_shutting_down, active_tasks_by_tag, ttag, ton_finished,
                   fnOutcome, cbCalls, nextTask, waitVars, faultVars, shutdownPc,
                   lastCall, history, fit, ui, auxVars>>

\* run(): self.function(*args, **kwargs) returns, or raises an Exception that
\* the `except Exception` clause logs.
RunFunction(t, outcome) ==
    /\ tstate[t] = "running"
    /\ tstate' = [tstate EXCEPT ![t] = "finishing"]
    /\ fnOutcome' = [fnOutcome EXCEPT ![t] = outcome]
    /\ UNCHANGED <<is_shutting_down, active_tasks_by_tag, ttag, ton_finished,
                   cbCalls, nextTask, waitVars, faultVars, shutdownPc,
                   lastCall, history, fit, ui, auxVars>>

WakeOne(pcs) ==
    [w \in Waiters |->
        IF pcs[w] = "waiting" /\ \A v \in Waiters : v < w => pcs[v] # "waiting"
        THEN "woken" ELSE pcs[w]]

\* tag_condition.wakeAll(): every thread blocked in tag_condition.wait,
\* whatever its tag, leaves the wait and will re-acquire tag_mutex.
WakeAll(pcs) == [w \in Waiters |-> IF pcs[w] = "waiting" THEN "woken" ELSE pcs[w]]

\* run() returns: the pool deletes the runnable (QRunnable.autoDelete), and its
\* tag and callback with it.
Deleted(t) ==
    /\ tstate' = [tstate EXCEPT ![t] = "done"]
    /\ fnOutcome' = IF history THEN fnOutcome ELSE [fnOutcome EXCEPT ![t] = "none"]
    /\ ttag' = [ttag EXCEPT ![t] = NoTag]
    /\ ton_finished' = [ton_finished EXCEPT ![t] = "default"]

\* run(): the finally block with the pool's own callback.
RunFinallyDefault(t) ==
    /\ tstate[t] = "finishing"
    /\ ton_finished[t] = "default"
    /\ LET n == FinallyCalls(fnOutcome[t])
           wakes == n > 0 /\ CallbackWakes(active_tasks_by_tag, ttag[t])
       IN /\ cbCalls' = [cbCalls EXCEPT ![t] = @ + n]
          /\ active_tasks_by_tag' =
                IF n > 0 THEN task_finished_callback(active_tasks_by_tag, ttag[t])
                         ELSE active_tasks_by_tag
          /\ wpc' = IF wakes THEN WakeAll(wpc) ELSE wpc
          /\ wreleased' = [w \in Waiters |->
                IF wakes /\ wpc[w] = "waiting" THEN wtag[w] = ttag[t] ELSE wreleased[w]]
    /\ Deleted(t)
    /\ UNCHANGED <<is_shutting_down, nextTask, wtag, faultVars,
                   shutdownPc, lastCall, history, fit, ui, auxVars>>

\* run(): the finally block with a caller-supplied on_finished, which returns
\* or raises; it replaces the pool's callback, so the map is not touched.
RunFinallyCustom(t, cbRaises) ==
    /\ tstate[t] = "finishing"
    /\ ton_finished[t] = "custom"
    /\ LET n == FinallyCalls(fnOutcome[t])
       IN /\ cbCalls' = [cbCalls EXCEPT ![t] = @ + n]
          /\ cbFaults' = IF history /\ n > 0 /\ cbRaises THEN fnOutcome[t]
                                                           ELSE cbFaults
          /\ escaped' = (escaped \/ (n > 0 /\ cbRaises /\ RunPropagates(cbRaises)))
    /\ Deleted(t)
    /\ UNCHANGED <<is_shutting_down, active_tasks_by_tag, nextTask,
                   waitVars, shutdownPc, lastCall, history, fit, ui, auxVars>>

\* ---------------------------------------------------- wait_for_tagged_tasks

WaitInverted(m, tag) == IF HasTag(m, tag) THEN "returned" ELSE "waiting"

\* `while tag in self.active_tasks_by_tag: self.tag_condition.wait(...)`: the
\* condition is evaluated under tag_mutex on entry and after every wake-up.
WaitLoop(m, tag) == IF HasTag(m, tag) THEN "waiting" ELSE "returned"

\* A thread calls wait_for_tagged_tasks(tag) and evaluates the loop condition
\* for the first time. The waiting threads are numbered in the order of their
\* calls.
WaitEnter(w, tag) ==
    /\ wpc[w] = "idle"
    /\ \A v \in Waiters : v < w => wpc[v] # "idle"
    /\ wpc' = [wpc EXCEPT ![w] = WaitLoop(active_tasks_by_tag, tag)]
    /\ wtag' = [wtag EXCEPT ![w] = tag]
    /\ UNCHANGED <<wreleased, is_shutting_down, active_tasks_by_tag, taskVars, faultVars,
                   shutdownPc, lastCall, history, fit, ui, auxVars>>

\* A woken thread re-acquires tag_mutex and evaluates the loop condition again.
WaitRecheck(w) ==
    /\ wpc[w] = "woken"
    /\ wpc' = [wpc EXCEPT ![w] = WaitLoop(active_tasks_by_tag, wtag[w])]
    /\ wreleased' = [wreleased EXCEPT ![w] = @ /\ wpc'[w] = "returned"]
    /\ UNCHANGED <<is_shutting_down, active_tasks_by_tag, taskVars, wtag, faultVars,
                   shutdownPc, lastCall, history, fit, ui, auxVars>>

\* ------------------------------------------------------------------ shutdown

ReturnsAtOnce(states) == TRUE

\* QThreadPool.waitForDone(): returns when no runnable is queued or running.
WaitForDone(states) ==
    \A t \in TaskIds : states[t] \notin {"queued", "running", "finishing"}

\* shutdown(): `with QMutexLocker(...): self.is_shutting_down = True`
ShutdownSetFlag ==
    /\ shutdownPc = "idle"
    /\ is_shutting_down' = TRUE
    /\ shutdownPc' = "waitForDone"
    /\ UNCHANGED <<active_tasks_by_tag, taskVars, waitVars, faultVars, lastCall,
                   history, fit, ui, auxVars>>

\* shutdown(): self.thread_pool.waitForDone() returns, and shutdown() with it.
ShutdownReturn ==
    /\ shutdownPc = "waitForDone"
    /\ WaitForDone(tstate)
    /\ shutdownPc' = "returned"
    /\ UNCHANGED <<is_shutting_down, active_tasks_by_tag, taskVars, waitVars,
                   faultVars, lastCall, history, fit, ui, auxVars>>

\* ------------------------------------------------- the cancellation methods

\* The methods class ThreadManager defines (QObject adds none of the names
\* in CancelMethods).
PoolMethods == {"submit_task", "task_finished_callback", "wait_for_tagged_tasks",
                "shutdown"}
CancelMethods == {"request_cancel", "clear_cancel"}

EveryCallSucceeds(op) == "ok"

\* Attribute lookup on a ThreadManager.
CallOutcome(op) == IF op \in PoolMethods THEN "ok" ELSE "AttributeError"

\* A client calls thread_manager.request_cancel(tag) or .clear_cancel(tag).
CallCancelMethod(op) ==
    /\ lastCall' = [op |-> op, outcome |-> CallOutcome(op), flag |-> FALSE]
    /\ lastCall' # lastCall
    /\ UNCHANGED <<is_shutting_down, active_tasks_by_tag, taskVars, waitVars,
                   faultVars, shutdownPc, history, fit, ui, auxVars>>

\* ---------------------------------------------------------------- the pool

WorkerStep(t) ==
    \/ TaskStart(t)
    \/ \E outcome \in {"returned", "raised"} : RunFunction(t, outcome)
    \/ RunFinallyDefault(t)
    \/ \E cbRaises \in BOOLEAN : RunFinallyCustom(t, cbRaises)

\* submit_task, the worker threads and shutdown.
TaskNext ==
    \/ \E tag \in TagArgs, cb \in {"default", "custom"}, nargs \in 0..MaxArgs :
          SubmitAccepted(tag, cb, nargs)
    \/ \E t \in TaskIds : WorkerStep(t)
    \/ ShutdownSetFlag
    \/ ShutdownReturn

\* The threads in wait_for_tagged_tasks.
WaitNext ==
    \/ \E w \in Waiters, tag \in Tags : WaitEnter(w, tag)
    \/ \E w \in Waiters : WaitRecheck(w)

\* The client calls that return no handle; none changes the pool's state.
NullCall ==
    \/ SubmitRejected
    \/ \E nargs \in 0..MaxArgs : SubmitTypeError(nargs)
    \/ \E op \in CancelMethods : CallCancelMethod(op)

Next == TaskNext \/ WaitNext

Spec == Init /\ [][Next]_vars

HistorySpec == HistoryInit /\ [][TaskNext]_vars

\* The pool's threads keep running and work functions end.
FairSpec == HistorySpec /\ \A t \in TaskIds : WF_vars(WorkerStep(t))

\* The pool with the client calls that return no handle.
ApiNext == TaskNext \/ NullCall

ApiSpec == Init /\ [][ApiNext]_vars

\* The pool when no caller passes on_finished: every task carries
\* task_finished_callback.
DefaultNext ==
    \/ \E tag \in TagArgs : SubmitAccepted(tag, "default", 0)
    \/ \E t \in TaskIds : TaskStart(t)
    \/ \E t \in TaskIds, outcome \in {"returned", "raised"} : RunFunction(t, outcome)
    \/ \E t \in TaskIds : RunFinallyDefault(t)
    \/ WaitNext
    \/ ShutdownSetFlag
    \/ ShutdownReturn

DefaultSpec == Init /\ [][DefaultNext]_vars

\* -------------------------------------------------- calculate_scaling_factor

max_iterations == 50
tolerance == 3

\* The arguments of a call. The text and the font face act through the width
\* QFontMetrics(font).boundingRect(actual_text).width() measures at a pixel
\* size: about wnum/wden pixels for each pixel of font size, 0 for the empty
\* text.
FitInputs ==
    {inp \in [parent_width : 1..MaxWidth, initial_text_width : 1..MaxRef,
              max_font_size : (1..MaxFont) \cup {BigFont}, min_font_size : 1..MaxFont,
              wnum : 0..MaxNum, wden : 1..MaxDen] :
        inp.min_font_size <= inp.max_font_size}

\* font.setPixelSize(px); QFontMetrics(font).boundingRect(actual_text).width()
Measure(inp, px) == (inp.wnum * px) \div inp.wden

\* new_size is a float; the model holds it exactly, as the number of units of
\* 1 / (2 * initial_text_width): the estimate and every step of 0.5 are whole
\* numbers of units.
Unit(inp) == 2 * inp.initial_text_width
HalfStep(inp) == inp.initial_text_width

\* int(new_size), for new_size >= 0
IntSize(inp, size) == size \div Unit(inp)

ClampBelowOnly(n, lo, hi) == IF n < lo THEN lo ELSE n

\* `if new_size < min_font_size: ... elif new_size > max_font_size: ...`
Clamp(n, lo, hi) == IF n < lo THEN lo ELSE IF n > hi THEN hi ELSE n

Lo(inp) == inp.min_font_size * Unit(inp)
Hi(inp) == inp.max_font_size * Unit(inp)

EstimateFromMin(inp) == Clamp(2 * inp.min_font_size * inp.parent_width, Lo(inp), Hi(inp))

\* scaling_factor = parent_width / initial_text_width;
\* new_size = max_font_size * scaling_factor, clamped
Estimate(inp) == Clamp(2 * inp.max_font_size * inp.parent_width, Lo(inp), Hi(inp))

Abs(x) == IF x < 0 THEN -x ELSE x

\* What the caller keeps of an earlier call with the same arguments.
NoCall == [result |-> 0, steps |-> 0, stop |-> "none"]

\* The call's locals on entry; calls and first belong to the caller.
FitCall(inp) ==
    [pc |-> "start", in |-> inp, size |-> 0, iteration_count |-> 0,
     direction |-> "none", stop |-> "none", steps |-> 0, result |-> 0,
     calls |-> 1, first |-> NoCall]

WiderBand(predicted_text_width, parent_width) ==
    Abs(predicted_text_width - parent_width) <= 2 * tolerance

\* `if abs(predicted_text_width - parent_width) <= tolerance: break`
WithinTolerance(predicted_text_width, parent_width) ==
    Abs(predicted_text_width - parent_width) <= tolerance

NeverReverses(last, turn) == FALSE

\* `if last_size_adjustment_direction == 'increase': break` on the way down,
\* `== 'decrease'` on the way up: the step about to be taken reverses the last.
Reverses(last, turn) == last \notin {"none", turn}

ClampGoesOn(stepped, clamped) == FALSE

\* `new_size = min_font_size; break` and `new_size = max_font_size; break`
ClampBreaks(stepped, clamped) == clamped # stepped

LoopForever(iteration_count) == TRUE

\* `while iteration_count < max_iterations`
LoopCondition(iteration_count) == iteration_count < max_iterations

\* One pass through the body of `while iteration_count < max_iterations`.
Iterate(f) ==
    LET inp == f.in
        width == Measure(inp, IntSize(inp, f.size))
        wider == width > inp.parent_width
        turn == IF wider THEN "decrease" ELSE "increase"
        stepped == IF wider THEN f.size - HalfStep(inp) ELSE f.size + HalfStep(inp)
        clamped == Clamp(stepped, Lo(inp), Hi(inp))
    IN  IF WithinTolerance(width, inp.parent_width)
        THEN [f EXCEPT !.pc = "exit", !.stop = "tolerance"]
        ELSE IF Reverses(f.direction, turn)
        THEN [f EXCEPT !.pc = "exit", !.stop = "oscillation"]
        ELSE IF ClampBreaks(stepped, clamped)
        THEN [f EXCEPT !.pc = "exit", !.stop = "clamped", !.size = clamped,
                       !.direction = turn, !.steps = @ + 1]
        ELSE [f EXCEPT !.size = clamped, !.direction = turn, !.steps = @ + 1,
                       !.iteration_count = @ + 1,
                       !.pc = IF LoopCondition(f.iteration_count + 1)
                              THEN "loop" ELSE "exit",
                       !.stop = IF LoopCondition(f.iteration_count + 1)
                                THEN "none" ELSE "iterations"]

\* The estimate, before the loop.
FitEstimate ==
    /\ fit.pc = "start"
    /\ fit' = [fit EXCEPT !.pc = "loop", !.size = Estimate(fit.in)]
    /\ UNCHANGED <<poolVars, ui, auxVars>>

FitIterate ==
    /\ fit.pc = "loop"
    /\ fit' = Iterate(fit)
    /\ UNCHANGED <<poolVars, ui, auxVars>>

\* `return int(new_size)`
FitReturn ==
    /\ fit.pc = "exit"
    /\ fit' = [fit EXCEPT !.pc = "done", !.result = IntSize(fit.in, fit.size)]
    /\ UNCHANGED <<poolVars, ui, auxVars>>

FitInit ==
    /\ PoolInit /\ history = FALSE /\ ui = NoWindow /\ AuxIdle
    /\ fit \in {FitCall(inp) : inp \in FitInputs}

FitNext == FitEstimate \/ FitIterate \/ FitReturn

FitSpec == FitInit /\ [][FitNext]_vars

SecondCallKeepsSize(f) ==
    [FitCall(f.in) EXCEPT !.calls = 2, !.pc = "loop", !.size = f.size,
        !.first = [result |-> f.result, steps |-> f.steps, stop |-> f.stop]]

\* The caller calls again with the arguments of the call that has returned:
\* new_size, iteration_count and last_size_adjustment_direction are locals,
\* set anew on entry; QFont and QFontMetrics are built anew in every pass.
SecondCall(f) ==
    [FitCall(f.in) EXCEPT !.calls = 2,
        !.first = [result |-> f.result, steps |-> f.steps, stop |-> f.stop]]

FitAgain ==
    /\ fit.pc = "done" /\ fit.calls = 1
    /\ fit' = SecondCall(fit)
    /\ UNCHANGED <<poolVars, ui, auxVars>>

RefitNext == FitNext \/ FitAgain

\* Two calls in a row with the same arguments.
RefitSpec == FitInit /\ [][RefitNext]_vars

\* The call runs on the calling thread, which executes it to its return.
FairFitSpec == FitSpec /\ WF_vars(FitNext)

\* ------------------------------------------------------------- the layout

\* UIConfiguration's defaults, the default of calculate_scaling_factor's
\* min_font_size and MainWindow's minimum width.
font_size == 12
splitter_handle_width == 5
window_size_width == 640
default_min_font_size == 3
minimum_width == 100

\* MainWindow's SectionWidget descriptors, in the order in which
\* apply_smallest_font_size visits them.
SectionNames == {"top", "status", "left", "right", "main_content"}
Bars == {"top", "status"}
Sidebars == {"left", "right"}

\* The sections whose splitter is a CollapsibleSplitter built by
\* create_splitter with the configured handle width.
Collapsibles == Bars \cup Sidebars

\* The window widths drawn: the minimum and multiples of half the configured
\* width.
Widths == {minimum_width} \cup {k * (window_size_width \div 2) : k \in 1..MaxScale}

\* The widths the toolkit gives the main-content widget, 0 when it is squeezed out.
MainWidths == {0, 400}

\* The widths initialize_geometries finds the sidebars to have.
SidebarWidths == {3, 200}

\* The attribute initial_<name>_sidebar_width has not been set (getattr gives
\* None): a value that is no width.
NoWidth == 0 - 1

\* The number of characters of each section's text.
Chars == [top |-> 30, status |-> 12, left |-> 6, right |-> 2, main_content |-> 40]

\* QFontMetrics(bar.font()).height(): the line height of the font at a pixel
\* size, a quarter above the pixel size.
LineHeight(px) == px + px \div 4 + 1

Min2(a, b) == IF a < b THEN a ELSE b
Max2(a, b) == IF a > b THEN a ELSE b

\* calculate_scaling_factor run from entry to return; the text measures half
\* its pixel size per character.
RECURSIVE FitRun(_)
FitRun(f) == IF f.pc = "exit" THEN IntSize(f.in, f.size) ELSE FitRun(Iterate(f))

calculate_scaling_factor(parent_width, chars, initial_text_width, max_font_size) ==
    LET inp == [parent_width |-> parent_width,
                initial_text_width |-> initial_text_width,
                max_font_size |-> max_font_size,
                min_font_size |-> default_min_font_size,
                wnum |-> chars, wden |-> 2]
    IN  FitRun([FitCall(inp) EXCEPT !.pc = "loop", !.size = Estimate(inp)])

PaddingUnfloored(dimension, pnum, pden) == (dimension * pnum) \div pden

\* `padding = max(2, int(dimension * padding_factor))`, the padding factor
\* being pnum / pden.
Padding(dimension, pnum, pden) == Max2(2, (dimension * pnum) \div pden)

\* `required_dimension = dimension + padding`
adjust_widget_dimension(dimension, pnum, pden) == dimension + Padding(dimension, pnum, pden)

\* scaling_factor = window_width / ui_config.window_size[0]; int(x * scaling_factor)
Scaled(x, window_width) == (x * window_width) \div window_size_width

HandleUnclamped(window_width) == Scaled(splitter_handle_width, window_width)

\* max(min(int(splitter_handle_width * scaling_factor), splitter_handle_width), 1)
HandleWidth(window_width) ==
    Max2(Min2(Scaled(splitter_handle_width, window_width), splitter_handle_width), 1)

\* adjust_splitter_handle_width: `if splitter: splitter.setHandleWidth(...)`
adjust_splitter_handle_width(u, s) ==
    IF u.splitter[s] THEN [u EXCEPT !.handle[s] = HandleWidth(u.width)] ELSE u

\* The size calculate_scaling_factor returned is the section's result, and
\* apply_font_size_to_widget sets it on the widget where the section applies it.
Fitted(u, s, applies, new_font_size) ==
    [u EXCEPT !.sizes[s] = new_font_size,
              !.font[s] = IF applies THEN new_font_size ELSE @]

\* The call of calculate_scaling_factor by a section: with a reference width
\* of 0 line 23 raises ZeroDivisionError, which leaves the pass.
FitSection(u, s, parent_width, initial_text_width, applies) ==
    IF initial_text_width = 0
    THEN [u EXCEPT !.raised = TRUE, !.zero_ref = TRUE]
    ELSE Fitted(u, s, applies, calculate_scaling_factor(parent_width, Chars[s],
                                                        initial_text_width, font_size))

\* Line 146 is reached unless calculate_scaling_factor raised.
HandleReached(u, s) == IF u.raised THEN u ELSE adjust_splitter_handle_width(u, s)

adjust_bar_height(u, s) ==
    IF u.kind[s] = "none" THEN u
    ELSE LET text_height == LineHeight(u.font[s])
             status_bar == u.kind[s] = "statusbar"
             boxed == [u EXCEPT
                 !.box[s] = IF status_bar THEN adjust_widget_dimension(text_height, 2, 5)
                                          ELSE adjust_widget_dimension(text_height, 1, 5),
                 !.label_height = IF status_bar THEN text_height ELSE @]
         IN  HandleReached(FitSection(boxed, s, u.width, text_height, TRUE), s)

adjust_sidebar_width(u, s) ==
    IF u.kind[s] = "none" \/ u.initial[s] = NoWidth THEN u
    ELSE LET new_sidebar_width == Scaled(u.initial[s], u.width)
             boxed == [u EXCEPT !.box[s] = adjust_widget_dimension(new_sidebar_width, 1, 10)]
             handled == adjust_splitter_handle_width(boxed, s)
         IN  FitSection(handled, s, new_sidebar_width, new_sidebar_width, TRUE)

\* The widget is absent, or has no text() and is skipped, or is fitted to its
\* own width; the size is returned, not applied.
adjust_main_content_font_size(u) ==
    IF u.kind["main_content"] \in {"none", "widget"} THEN u
    ELSE FitSection(u, "main_content", u.mainWidth, u.mainWidth, FALSE)

Largest(sizes) ==
    LET found == {sizes[s] : s \in SectionNames} \ {0}
    IN  IF found = {} THEN font_size
        ELSE CHOOSE n \in found : \A m \in found : n >= m

Smallest(sizes) ==
    LET found == {sizes[s] : s \in SectionNames} \ {0}
    IN  IF found = {} THEN font_size
        ELSE CHOOSE n \in found : \A m \in found : n <= m

\* `min(filter(None, font_sizes)) if any(font_sizes) else ui_config.font_size`,
\* applied to the widget of every section that has one.
apply_smallest_font_size(u) ==
    [u EXCEPT !.font = [s \in SectionNames |->
                           IF u.kind[s] # "none" THEN Smallest(u.sizes) ELSE u.font[s]]]

\* A call of the pass is reached unless a call before it raised.
Reached(u, s, call) ==
    IF u.raised THEN u
    ELSE IF call = "smallest" THEN apply_smallest_font_size(u)
    ELSE IF call = "main_content" THEN adjust_main_content_font_size(u)
    ELSE IF call = "sidebar" THEN adjust_sidebar_width(u, s)
    ELSE adjust_bar_height(u, s)

\* The calls in the order of lines 58..69; an exception leaves at the call
\* that raised.
adjust_font_and_widget_sizes(u) ==
    LET start == [u EXCEPT !.raised = FALSE, !.zero_ref = FALSE,
                           !.sizes = [s \in SectionNames |-> 0]]
        top == Reached(start, "top", "bar")
        status == Reached(top, "status", "bar")
        left == Reached(status, "left", "sidebar")
        right == Reached(left, "right", "sidebar")
        main == Reached(right, "main_content", "main_content")
    IN  Reached(main, "main_content", "smallest")

AbsentIsFalsy(kinds) == kinds["main_content"] = "none"

\* `if not self.main_content_section`: SectionWidget.__get__ returns the pair
\* (splitter, widget), (None, None) for a section never set, and a pair is
\* truthy whatever it holds.
MainContentSectionFalsy(kinds) == FALSE

\* `except Exception`: an exception of the pass is logged and adjust_layout
\* returns.
Caught(u) == [u EXCEPT !.outcome = IF u.raised THEN "aborted" ELSE "completed"]

\* MainWindow.adjust_layout: the guard, then the pass inside try/except.
adjust_layout(u) ==
    IF MainContentSectionFalsy(u.kind)
    THEN [u EXCEPT !.outcome = "refused"]
    ELSE Caught(adjust_font_and_widget_sizes(u))

\* The collapsible_sections a window is built from: which sections it names
\* and what the bottom and main-content widgets are; "missing": the dict has
\* no "main_content" key. The configurations drawn name both sidebars or none.
Configs ==
    {c \in [top : BOOLEAN, status : {"none", "label", "statusbar"}, left : BOOLEAN,
            right : BOOLEAN, main_content : {"missing", "label", "widget"}] :
        c.left = c.right}

\* _initialize_ui: the top section, then create_main_content_splitter (main
\* content, left, right), then the bottom section; without a "main_content"
\* key line 180 raises KeyError and the sections after the top one stay unset.
Built(cfg) ==
    LET main == cfg.main_content # "missing"
    IN  [top |-> IF cfg.top THEN "label" ELSE "none",
         status |-> IF main THEN cfg.status ELSE "none",
         left |-> IF main /\ cfg.left THEN "label" ELSE "none",
         right |-> IF main /\ cfg.right THEN "label" ELSE "none",
         main_content |-> IF main THEN cfg.main_content ELSE "none"]

\* The sections and their geometry right after _initialize_ui: every widget
\* with the configured font, every CollapsibleSplitter with the configured
\* handle width, no size fixed yet.
Rebuilt(u, cfg) ==
    LET kinds == Built(cfg)
    IN  [u EXCEPT
            !.kind = kinds,
            !.splitter = [s \in SectionNames |-> kinds[s] # "none"],
            !.font = [s \in SectionNames |-> IF kinds[s] # "none" THEN font_size ELSE 0],
            !.box = [s \in SectionNames |-> 0],
            !.label_height = 0,
            !.raised = FALSE, !.zero_ref = FALSE, !.outcome = "none",
            !.sizes = [s \in SectionNames |-> 0],
            !.handle = [s \in SectionNames |->
                           IF s \in Collapsibles /\ kinds[s] # "none"
                           THEN splitter_handle_width ELSE 0]]

\* MainWindow.__init__
Window(cfg, mw) ==
    Rebuilt([pc |-> "window", width |-> window_size_width, mainWidth |-> mw,
             kind |-> <<>>, splitter |-> <<>>, font |-> <<>>,
             box |-> <<>>, label_height |-> 0, handle |-> <<>>,
             initial |-> [s \in Sidebars |-> NoWidth],
             raised |-> FALSE, zero_ref |-> FALSE,
             sizes |-> [s \in SectionNames |-> 0], outcome |-> "none",
             suppress_resize_event |-> TRUE, is_initialized |-> FALSE,
             pending |-> FALSE], cfg)

\* initialize_geometries, for the sidebars: the width of each sidebar present
\* is stored, once.
initialize_geometries(u, lw, rw) ==
    [u EXCEPT !.initial = [s \in Sidebars |->
        IF u.kind[s] = "none" THEN u.initial[s]
        ELSE IF s = "left" THEN lw ELSE rw]]

\* The single-shot timer of finalize_initialization fires.
initialize_geometries_after_delay ==
    /\ ui.pc = "window" /\ ~ui.is_initialized
    /\ \E lw, rw \in SidebarWidths :
          ui' = [adjust_layout(initialize_geometries(ui, lw, rw))
                    EXCEPT !.is_initialized = TRUE]
    /\ UNCHANGED <<poolVars, fit, auxVars>>

\* MainWindow.resizeEvent at a new window width: the first event is swallowed,
\* every later one runs the pass.
resizeEvent(w, mw) ==
    /\ ui.pc = "window"
    /\ ui' = IF ui.suppress_resize_event
             THEN [ui EXCEPT !.width = w, !.mainWidth = mw,
                             !.suppress_resize_event = FALSE]
             ELSE adjust_layout([ui EXCEPT !.width = w, !.mainWidth = mw])
    /\ UNCHANGED <<poolVars, fit, auxVars>>

\* MainWindow.handle_splitter_movement
handle_splitter_movement(mw) ==
    /\ ui.pc = "window"
    /\ mw # ui.mainWidth
    /\ ui' = adjust_layout([ui EXCEPT !.mainWidth = mw])
    /\ UNCHANGED <<poolVars, fit, auxVars>>

\* The configurations that differ from the one the window was last built
\* from by one bar, by the main content or by the sidebars.
OneSectionChanged(kinds, cfg) ==
    LET was == [top |-> kinds["top"] # "none", status |-> kinds["status"],
                left |-> kinds["left"] # "none", right |-> kinds["right"] # "none",
                main_content |-> IF kinds["main_content"] = "none" THEN "missing"
                                 ELSE kinds["main_content"]]
    IN  /\ cfg # was
        /\ Cardinality({s \in SectionNames \ Sidebars : cfg[s] # was[s]}) <= 1
        /\ cfg.left # was.left =>
              \A s \in SectionNames \ Sidebars : cfg[s] = was[s]

\* MainWindow.update_ui: the sections are rebuilt and the pass is left to a
\* zero-delay timer, unless the rebuild raised.
update_ui(cfg) ==
    /\ ui.pc = "window"
    /\ OneSectionChanged(ui.kind, cfg)
    /\ ui' = [Rebuilt(ui, cfg) EXCEPT !.pending = cfg.main_content # "missing"]
    /\ UNCHANGED <<poolVars, fit, auxVars>>

\* The zero-delay timer of update_ui fires.
DeferredAdjustLayout ==
    /\ ui.pc = "window" /\ ui.pending
    /\ ui' = [adjust_layout(ui) EXCEPT !.pending = FALSE]
    /\ UNCHANGED <<poolVars, fit, auxVars>>

LayoutInit ==
    /\ PoolInit /\ history = FALSE /\ fit = FitIdle /\ AuxIdle
    /\ ui \in {Window(cfg, mw) :
                 cfg \in {c \in Configs : c.main_content # "missing"},
                 mw \in MainWidths}

LayoutNext ==
    \/ initialize_geometries_after_delay
    \/ \E w \in Widths, mw \in MainWidths : resizeEvent(w, mw)
    \/ \E mw \in MainWidths : handle_splitter_movement(mw)
    \/ \E cfg \in Configs : update_ui(cfg)
    \/ DeferredAdjustLayout

LayoutSpec == LayoutInit /\ [][LayoutNext]_vars

\* ------------------------------------------------------- StatusBarManager

\* The texts of the 'status_update' events; no text is the argument None.
Texts == {"A", "B"}
NoText == "None"
initial_text == "Status Bar Initialized"
StatusTasks == 1..(MaxUpdates + 1)

\* `text or ''`, `tooltip or text or ''`
OrEmpty(x) == IF x = NoText THEN "" ELSE x
OrElse(x, y) == IF x = NoText \/ x = "" THEN y ELSE x

KeepsTextWhenNone(label, text, tooltip) ==
    IF text = NoText THEN label
    ELSE [text |-> text, tooltip |-> OrEmpty(OrElse(tooltip, text))]

\* update_status_bar, on a manager that has its label:
\* `setText(text or '')`, `setToolTip(tooltip or text or '')`
update_status_bar(label, text, tooltip) ==
    [text |-> OrEmpty(text), tooltip |-> OrEmpty(OrElse(tooltip, text))]

\* kwargs.get('text', 'Default Status Text'); tooltip_text = status_text
StatusArgs(kwargs) == <<kwargs, kwargs>>

WritesTheLabel(m, k) ==
    [m EXCEPT !.task[k] = "done",
              !.label = update_status_bar(m.label, m.kwargs[k], m.kwargs[k]),
              !.writer = "worker", !.last_op = "task"]

\* _process_status_update in a thread of the pool: it emits status_updated;
\* the slot is a method of a QObject of the UI thread, so the emission is
\* queued as an event of the UI thread, behind the emissions before it.
process_status_update(m, k) ==
    [m EXCEPT !.task[k] = "done",
              !.emitted = Append(@, StatusArgs(m.kwargs[k])),
              !.last_op = "task"]

\* start_worker(text=text): submit_task(self._process_status_update, text=text)
\* on a pool that is not shutting down.
start_worker(m, text) ==
    LET k == m.submitted + 1
    IN  [m EXCEPT !.submitted = k, !.task[k] = "queued", !.kwargs[k] = text,
                  !.requested = text, !.last_op = "request"]

\* The manager after initialize_status_bar: the label has the initial text as
\* its tooltip and the first task is in the pool.
StatusManager ==
    start_worker([pc |-> "manager",
                  label |-> [text |-> "", tooltip |-> initial_text],
                  submitted |-> 0,
                  task |-> [k \in StatusTasks |-> "unused"],
                  kwargs |-> [k \in StatusTasks |-> NoText],
                  emitted |-> <<>>,
                  requested |-> NoText,
                  writer |-> "ui", last_op |-> "none"], initial_text)

\* update_status_bar_event(text), the handler of 'status_update':
\* `if text is not None: self.start_worker(text=text)`
update_status_bar_event(text) ==
    /\ sbm.pc = "manager"
    /\ sbm.submitted < MaxUpdates + 1
    /\ sbm' = IF text = NoText THEN [sbm EXCEPT !.last_op = "request"]
              ELSE start_worker(sbm, text)
    /\ UNCHANGED <<poolVars, fit, ui, rsz, lk>>

\* The pool starts the queued runnables in the order of their submission,
\* each when a thread is free.
StatusTaskStart(k) ==
    /\ sbm.pc = "manager"
    /\ sbm.task[k] = "queued"
    /\ \A j \in StatusTasks : j < k => sbm.task[j] # "queued"
    /\ Cardinality({j \in StatusTasks : sbm.task[j] = "running"}) < MaxStatusWorkers
    /\ sbm' = [sbm EXCEPT !.task[k] = "running", !.last_op = "task"]
    /\ UNCHANGED <<poolVars, fit, ui, rsz, lk>>

\* A thread of the pool runs _process_status_update to its end.
StatusTaskRun(k) ==
    /\ sbm.pc = "manager"
    /\ sbm.task[k] = "running"
    /\ sbm' = process_status_update(sbm, k)
    /\ UNCHANGED <<poolVars, fit, ui, rsz, lk>>

\* The UI thread's event loop delivers the oldest queued emission of
\* status_updated to the slot update_status_bar.
StatusUpdatedDelivered ==
    /\ sbm.pc = "manager"
    /\ sbm.emitted # <<>>
    /\ sbm' = [sbm EXCEPT
                  !.emitted = Tail(@),
                  !.label = update_status_bar(@, Head(sbm.emitted)[1], Head(sbm.emitted)[2]),
                  !.writer = "ui", !.last_op = "signal"]
    /\ UNCHANGED <<poolVars, fit, ui, rsz, lk>>

\* MainWindow.resizeEvent and on_resize_timeout, on the UI thread:
\* `self.status_bar_manager.update_status_bar()`
StatusResized ==
    /\ sbm.pc = "manager"
    /\ sbm' = [sbm EXCEPT !.label = update_status_bar(@, NoText, NoText),
                          !.writer = "ui", !.last_op = "resize"]
    /\ UNCHANGED <<poolVars, fit, ui, rsz, lk>>

StatusInit ==
    /\ PoolInit /\ history = FALSE /\ fit = FitIdle /\ ui = NoWindow
    /\ sbm = StatusManager /\ rsz = NoAux /\ lk = NoAux

StatusNext ==
    \/ \E text \in Texts \cup {NoText} : update_status_bar_event(text)
    \/ \E k \in StatusTasks : StatusTaskStart(k)
    \/ \E k \in StatusTasks : StatusTaskRun(k)
    \/ StatusUpdatedDelivered
    \/ StatusResized

StatusSpec == StatusInit /\ [][StatusNext]_vars

\* ------------------------------------------------- the resize debounce
\* glavnaqt/core/event_handling.py and MainWindow.resizeEvent: the window's
\* single-shot resize timer, re-armed by the resize events, whose timeout
\* emits resize_signal.resized, connected to MainWindow.on_resize_timeout, and
\* its single-shot final_size_timer, whose timeout runs log_final_size.
\* Time passes in steps of TickMs milliseconds.

\* the resize events drawn, the window sizes they carry, the clock's step
MaxResizes == 4
MaxSize == 3
TickMs == 10

\* resize_timer.start(50)
resize_delay == 50

\* final_size_timer.start(200)
final_size_delay == 200

Sizes == 1..MaxSize

\* QTimer(): not active.
ResizeTimer == [active |-> FALSE, remaining |-> 0, interval |-> 0]

\* QTimer.stop().
TimerStop(t) == [t EXCEPT !.active = FALSE, !.remaining = 0]

\* QTimer.start(msec): a running timer is stopped and restarted.
TimerStart(t, msec) == [active |-> TRUE, remaining |-> msec, interval |-> msec]

\* A timer that was not set single-shot: its timeout leaves it running for
\* another interval.
Repeating(t) == [t EXCEPT !.active = TRUE, !.remaining = t.interval]

\* setSingleShot(True): the timeout leaves the timer inactive.
SingleShot(t) == [t EXCEPT !.active = FALSE, !.remaining = 0]

\* adjust_layout reads the sizes the widgets have when it runs; `laid` is the
\* window size of the latest pass.
adjust_window(w) == [w EXCEPT !.laid = w.size]

\* on_resize_timeout: the slot of resize_signal.resized; `fired` counts its
\* calls since the latest resize event handled.
on_resize_timeout(w) == [adjust_window(w) EXCEPT !.fired = @ + 1]

\* The timer stopped when active, then started for resize_delay.
Rearmed(t) == TimerStart(IF t.active THEN TimerStop(t) ELSE t, resize_delay)

\* handle_resize_event: with logging suppressed the timer is re-armed; without,
\* the signal is emitted at once and the timer re-armed after it.
handle_resize_event(w) ==
    IF w.suppress_logging
    THEN [w EXCEPT !.timer = Rearmed(@)]
    ELSE [on_resize_timeout(w) EXCEPT !.timer = Rearmed(@)]

\* resizeEvent past the suppress_resize_event test: logging suppressed around
\* handle_resize_event and the direct adjust_layout, then the final-size
\* timer started.
ResizeHandled(w) ==
    [adjust_window(handle_resize_event([w EXCEPT !.is_resizing = TRUE,
                                                 !.suppress_logging = TRUE]))
        EXCEPT !.suppress_logging = FALSE,
               !.final_size_timer = TimerStart(@, final_size_delay),
               !.last_op = "resize"]

\* MainWindow.__init__ and setup_event_handling.
ResizeWindow ==
    [pc |-> "window", size |-> 1, suppress_resize_event |-> TRUE,
     suppress_logging |-> FALSE, is_resizing |-> FALSE,
     timer |-> ResizeTimer, final_size_timer |-> ResizeTimer, resizes |-> 0,
     fired |-> 0, laid |-> 0, last_op |-> "init"]

\* MainWindow.resizeEvent for a new window size: the first event is swallowed.
ResizeNotification(size) ==
    /\ rsz.pc = "window" /\ rsz.resizes < MaxResizes /\ size # rsz.size
    /\ rsz' = IF rsz.suppress_resize_event
              THEN [rsz EXCEPT !.suppress_resize_event = FALSE, !.size = size,
                               !.resizes = @ + 1, !.last_op = "swallowed"]
              ELSE ResizeHandled([rsz EXCEPT !.size = size, !.resizes = @ + 1,
                                             !.fired = 0])
    /\ UNCHANGED <<poolVars, fit, ui, sbm, lk>>

\* A timer that has run out: the event loop fires it before more time passes.
Due(t) == t.active /\ t.remaining = 0

\* A running timer after msec milliseconds.
Elapsed(t, msec) ==
    IF t.active THEN [t EXCEPT !.remaining = IF @ > msec THEN @ - msec ELSE 0]
    ELSE t

\* TickMs milliseconds pass while a timer runs and none is due.
ResizeTick ==
    /\ rsz.pc = "window"
    /\ rsz.timer.active \/ rsz.final_size_timer.active
    /\ ~Due(rsz.timer) /\ ~Due(rsz.final_size_timer)
    /\ rsz' = [rsz EXCEPT !.timer = Elapsed(@, TickMs),
                          !.final_size_timer = Elapsed(@, TickMs),
                          !.last_op = "tick"]
    /\ UNCHANGED <<poolVars, fit, ui, sbm, lk>>

\* The timer's timeout: resize_signal.resized.emit(), whose slot runs
\* on_resize_timeout.
ResizeTimeout ==
    /\ rsz.pc = "window" /\ Due(rsz.timer)
    /\ rsz' = [on_resize_timeout([rsz EXCEPT !.timer = SingleShot(@)])
                  EXCEPT !.last_op = "timeout"]
    /\ UNCHANGED <<poolVars, fit, ui, sbm, lk>>

\* The final-size timer's timeout: log_final_size.
FinalSizeTimeout ==
    /\ rsz.pc = "window" /\ Due(rsz.final_size_timer)
    /\ rsz' = [rsz EXCEPT !.final_size_timer = SingleShot(@),
                          !.is_resizing = FALSE, !.last_op = "final"]
    /\ UNCHANGED <<poolVars, fit, ui, sbm, lk>>

DebounceInit ==
    /\ PoolInit /\ history = FALSE /\ fit = FitIdle /\ ui = NoWindow
    /\ sbm = NoAux /\ rsz = ResizeWindow /\ lk = NoAux

DebounceNext ==
    \/ \E size \in Sizes : ResizeNotification(size)
    \/ ResizeTick
    \/ ResizeTimeout
    \/ FinalSizeTimeout

DebounceSpec == DebounceInit /\ [][DebounceNext]_vars

\* The event loop runs: time passes and a timer that is due fires.
FairDebounceSpec ==
    /\ DebounceSpec
    /\ WF_vars(ResizeTick) /\ WF_vars(ResizeTimeout) /\ WF_vars(FinalSizeTimeout)

\* ------------------------------------------------- the pool's mutexes
\* ThreadManager at the level of its two mutexes: threads calling submit_task,
\* wait_for_tagged_tasks and shutdown, and the pool's threads running
\* TaskRunnable.run with task_finished_callback, each blocking where the code
\* constructs a QMutexLocker.  One tag; a submission may carry no tag.

\* the threads calling submit_task and those calling wait_for_tagged_tasks
MaxSubmitters == 2
MaxLockWaiters == 1

Submitters == 1..MaxSubmitters
LockWaiters == 1..MaxLockWaiters

\* A thread is named by what it runs; the task of submitter i runs on the
\* pool thread <<"task", i>>.
SubmitThread(i) == <<"submit", i>>
TaskThread(i) == <<"task", i>>
WaitThread(w) == <<"wait", w>>
ShutdownThread == <<"shutdown", 1>>
NoThread == <<"none", 0>>

LockThreads ==
    {SubmitThread(i) : i \in Submitters} \cup {TaskThread(i) : i \in Submitters}
        \cup {WaitThread(w) : w \in LockWaiters} \cup {ShutdownThread}

\* A thread that keeps the mutex while it waits on the condition.
HeldInWait(th) == th

\* tag_condition.wait(self.tag_mutex) releases the mutex while the thread
\* waits.
ReleasedInWait(th) == NoThread

\* wakeAll(): every thread waiting on the condition goes on to re-acquire the
\* mutex.
WokenToLock(thr) ==
    [th \in LockThreads |-> IF thr[th] = "waiting" THEN "tag_lock" ELSE thr[th]]

\* ThreadManager.__init__: both mutexes free, the flag clear, the map empty.
LockManager ==
    [pc |-> "locks", thr |-> [th \in LockThreads |-> "idle"],
     sd_owner |-> NoThread, tag_owner |-> NoThread,
     is_shutting_down |-> FALSE, count |-> 0,
     tagged |-> [i \in Submitters |-> FALSE]]

\* A thread enters submit_task, wait_for_tagged_tasks or shutdown and reaches
\* the QMutexLocker the call opens with.
LockSubmitCall(i, withTag) ==
    /\ lk.pc = "locks" /\ lk.thr[SubmitThread(i)] = "idle"
    /\ lk' = [lk EXCEPT !.thr[SubmitThread(i)] = "sd_lock", !.tagged[i] = withTag]
    /\ UNCHANGED <<poolVars, fit, ui, sbm, rsz>>

LockWaitCall(w) ==
    /\ lk.pc = "locks" /\ lk.thr[WaitThread(w)] = "idle"
    /\ lk' = [lk EXCEPT !.thr[WaitThread(w)] = "tag_lock"]
    /\ UNCHANGED <<poolVars, fit, ui, sbm, rsz>>

LockShutdownCall ==
    /\ lk.pc = "locks" /\ lk.thr[ShutdownThread] = "idle"
    /\ lk' = [lk EXCEPT !.thr[ShutdownThread] = "sd_lock"]
    /\ UNCHANGED <<poolVars, fit, ui, sbm, rsz>>

\* QMutexLocker(self.is_shutting_down_mutex): granted when the mutex is free.
AcquireShutdownMutex(th) ==
    /\ lk.pc = "locks" /\ lk.thr[th] = "sd_lock" /\ lk.sd_owner = NoThread
    /\ lk' = [lk EXCEPT !.sd_owner = th, !.thr[th] = "sd_held"]
    /\ UNCHANGED <<poolVars, fit, ui, sbm, rsz>>

\* QMutexLocker(self.tag_mutex), and the mutex re-acquired on the return from
\* tag_condition.wait.
AcquireTagMutex(th) ==
    /\ lk.pc = "locks" /\ lk.thr[th] = "tag_lock" /\ lk.tag_owner = NoThread
    /\ lk' = [lk EXCEPT !.tag_owner = th, !.thr[th] = "tag_held"]
    /\ UNCHANGED <<poolVars, fit, ui, sbm, rsz>>

\* submit_task under the shutdown mutex: refused when the flag is set; with a
\* tag it goes on to the tag mutex; without one it starts the task.
LockSubmitTest(i) ==
    /\ lk.pc = "locks" /\ lk.thr[SubmitThread(i)] = "sd_held"
    /\ lk' = IF lk.is_shutting_down
             THEN [lk EXCEPT !.sd_owner = NoThread, !.thr[SubmitThread(i)] = "done"]
             ELSE IF lk.tagged[i]
                  THEN [lk EXCEPT !.thr[SubmitThread(i)] = "tag_lock"]
                  ELSE [lk EXCEPT !.thr[SubmitThread(i)] = "starting"]
    /\ UNCHANGED <<poolVars, fit, ui, sbm, rsz>>

\* active_tasks_by_tag[tag] += 1 under the tag mutex, which is then released.
LockSubmitCount(i) ==
    /\ lk.pc = "locks" /\ lk.thr[SubmitThread(i)] = "tag_held"
    /\ lk' = [lk EXCEPT !.count = @ + 1, !.tag_owner = NoThread,
                        !.thr[SubmitThread(i)] = "starting"]
    /\ UNCHANGED <<poolVars, fit, ui, sbm, rsz>>

\* thread_pool.start(runnable) and the return, which releases the shutdown
\* mutex.
LockSubmitStart(i) ==
    /\ lk.pc = "locks" /\ lk.thr[SubmitThread(i)] = "starting"
    /\ lk' = [lk EXCEPT !.sd_owner = NoThread, !.thr[SubmitThread(i)] = "done",
                        !.thr[TaskThread(i)] = "queued"]
    /\ UNCHANGED <<poolVars, fit, ui, sbm, rsz>>

\* A pool thread takes the task.
LockTaskStart(i) ==
    /\ lk.pc = "locks" /\ lk.thr[TaskThread(i)] = "queued"
    /\ lk' = [lk EXCEPT !.thr[TaskThread(i)] = "running"]
    /\ UNCHANGED <<poolVars, fit, ui, sbm, rsz>>

\* TaskRunnable.run: the function ends and task_finished_callback is called,
\* which takes the tag mutex when the task has a tag.
LockTaskRun(i) ==
    /\ lk.pc = "locks" /\ lk.thr[TaskThread(i)] = "running"
    /\ lk' = [lk EXCEPT !.thr[TaskThread(i)] =
                            IF lk.tagged[i] THEN "tag_lock" ELSE "done"]
    /\ UNCHANGED <<poolVars, fit, ui, sbm, rsz>>

\* task_finished_callback under the tag mutex: the count goes down, the entry
\* is popped at 0 and the waiters are woken; the mutex is released.
LockCallback(i) ==
    /\ lk.pc = "locks" /\ lk.thr[TaskThread(i)] = "tag_held"
    /\ lk' = [lk EXCEPT !.count = IF @ > 0 THEN @ - 1 ELSE @,
                        !.thr = [IF lk.count = 1 THEN WokenToLock(@) ELSE @
                                    EXCEPT ![TaskThread(i)] = "done"],
                        !.tag_owner = NoThread]
    /\ UNCHANGED <<poolVars, fit, ui, sbm, rsz>>

\* wait_for_tagged_tasks under the tag mutex: with the tag in the map it waits
\* on the condition; without, it returns and releases the mutex.
LockWaitTest(w) ==
    /\ lk.pc = "locks" /\ lk.thr[WaitThread(w)] = "tag_held"
    /\ lk' = IF lk.count > 0
             THEN [lk EXCEPT !.tag_owner = ReleasedInWait(WaitThread(w)),
                             !.thr[WaitThread(w)] = "waiting"]
             ELSE [lk EXCEPT !.tag_owner = NoThread,
                             !.thr[WaitThread(w)] = "done"]
    /\ UNCHANGED <<poolVars, fit, ui, sbm, rsz>>

\* shutdown under the shutdown mutex: the flag is set and the mutex released
\* before waitForDone.
LockShutdownSet ==
    /\ lk.pc = "locks" /\ lk.thr[ShutdownThread] = "sd_held"
    /\ lk' = [lk EXCEPT !.is_shutting_down = TRUE, !.sd_owner = NoThread,
                        !.thr[ShutdownThread] = "wait_pool"]
    /\ UNCHANGED <<poolVars, fit, ui, sbm, rsz>>

\* waitForDone returns when the pool holds no task.
LockShutdownReturn ==
    /\ lk.pc = "locks" /\ lk.thr[ShutdownThread] = "wait_pool"
    /\ \A i \in Submitters : lk.thr[TaskThread(i)] \in {"idle", "done"}
    /\ lk' = [lk EXCEPT !.thr[ShutdownThread] = "done"]
    /\ UNCHANGED <<poolVars, fit, ui, sbm, rsz>>

LockInit ==
    /\ PoolInit /\ history = FALSE /\ fit = FitIdle /\ ui = NoWindow
    /\ sbm = NoAux /\ rsz = NoAux /\ lk = LockManager

\* The steps of a thread once it is inside a call, or of a pool thread.
LockSteps ==
    \/ \E th \in LockThreads : AcquireShutdownMutex(th)
    \/ \E th \in LockThreads : AcquireTagMutex(th)
    \/ \E i \in Submitters : LockSubmitTest(i)
    \/ \E i \in Submitters : LockSubmitCount(i)
    \/ \E i \in Submitters : LockSubmitStart(i)
    \/ \E i \in Submitters : LockTaskStart(i)
    \/ \E i \in Submitters : LockTaskRun(i)
    \/ \E i \in Submitters : LockCallback(i)
    \/ \E w \in LockWaiters : LockWaitTest(w)
    \/ LockShutdownSet
    \/ LockShutdownReturn

LockNext ==
    \/ \E i \in Submitters, withTag \in BOOLEAN : LockSubmitCall(i, withTag)
    \/ \E w \in LockWaiters : LockWaitCall(w)
    \/ LockShutdownCall
    \/ LockSteps

LockSpec == LockInit /\ [][LockNext]_vars

\* While a thread inside a call or a pool thread can take a step, one of them
\* does.
FairLockSpec == LockSpec /\ WF_vars(LockSteps)

\* ------------------------------------------------------------ the claims

\* A task the pool holds: accepted, its run() not yet returned.
Outstanding(states, t) == states[t] \in {"queued", "running", "finishing"}

\* The count the map holds for a tag, 0 when it has no entry.
Count(m, tag) == IF HasTag(m, tag) THEN m[tag] ELSE 0

\* A step in which the entry of `tag` is removed from the map.
Removed(tag) ==
    HasTag(active_tasks_by_tag, tag) /\ ~HasTag(active_tasks_by_tag', tag)

\* C1: a call of wait_for_tagged_tasks(tag) returns only in a state where the
\* tag has no entry and no task submitted under the tag is still to invoke its
\* completion callback; and the step that removes a tag's entry (the one that
\* wakes the waiters) leaves no task of that tag without its callback invoked.
C1_WaitReturnsAfterAllCallbacks ==
    [][ /\ \A w \in Waiters :
            (wpc[w] # "returned" /\ wpc'[w] = "returned") =>
                /\ ~HasTag(active_tasks_by_tag', wtag'[w])
                /\ \A t \in TaskIds :
                      Outstanding(tstate', t) => ttag'[t] # wtag'[w]
        /\ \A tag \in Tags :
            Removed(tag) =>
                \A t \in TaskIds : Outstanding(tstate', t) => ttag'[t] # tag
        /\ \A w \in Waiters :
            (wpc[w] = "waiting" /\ wpc'[w] # "waiting") => \E tag \in Tags : Removed(tag)
      ]_vars

\* A thread that blocked on a tag has been woken by the removal of that tag
\* and has returned, with every accepted task done and its callback invoked.
C1_Witness ==
    /\ \E w \in Waiters : wpc[w] = "returned" /\ wreleased[w]
    /\ nextTask > MaxTasks
    /\ \A t \in TaskIds : tstate[t] = "done" /\ cbCalls[t] = 1

\* C2: every accepted task has invoked its on_finished callback exactly once
\* when its run() has ended, after a normal return and after a raised fault
\* alike, and not at all before.
C2_CallbackExactlyOnce ==
    \A t \in TaskIds :
        /\ cbCalls[t] = (IF tstate[t] = "done" THEN 1 ELSE 0)
        /\ tstate[t] = "done" => fnOutcome[t] \in {"returned", "raised"}
        /\ Outstanding(tstate, t) => t < nextTask

\* One task has returned and one has raised; each has invoked its callback.
C2_Witness ==
    \E t, u \in TaskIds :
        /\ tstate[t] = "done" /\ fnOutcome[t] = "returned" /\ cbCalls[t] = 1
        /\ tstate[u] = "done" /\ fnOutcome[u] = "raised" /\ cbCalls[u] = 1

\* C3: when run() ends, the callback has been invoked once and, for a tagged
\* task with the pool's callback, the tag's count is one less, whether the work
\* function returned or raised; and a task queued behind a task that raised
\* runs to completion.
C3_FaultKeepsBookkeepingAndPool ==
    /\ [][ \A t \in TaskIds :
             (tstate[t] = "finishing" /\ tstate'[t] = "done") =>
                /\ cbCalls'[t] = 1
                /\ (ton_finished[t] = "default" /\ ttag[t] # NoTag) =>
                      Count(active_tasks_by_tag', ttag[t])
                          = Count(active_tasks_by_tag, ttag[t]) - 1
         ]_vars
    /\ \A t \in TaskIds :
          (tstate[t] = "queued" /\ \E u \in TaskIds : u < t /\ fnOutcome[u] = "raised")
             ~> (tstate[t] = "done")

\* A task raised, its callback ran, and a task submitted after it is done.
C3_Witness ==
    \E t, u \in TaskIds :
        /\ t < u
        /\ tstate[t] = "done" /\ fnOutcome[t] = "raised" /\ cbCalls[t] = 1
        /\ tstate[u] = "done" /\ cbCalls[u] = 1

\* C4: submit_task returns no handle exactly when a shutdown is in progress: a
\* call that found the flag clear is not rejected.
C4_RejectedIffShuttingDown ==
    (lastCall.op = "submit_task" /\ lastCall.outcome = "None") => lastCall.flag

\* C5 as stated: once shutdown() has set the flag, the queued tasks that have
\* not started are discarded: none of them starts.
C5_QueuedTasksDiscarded ==
    [][ \A t \in TaskIds :
          (is_shutting_down /\ tstate[t] = "queued") => tstate'[t] # "running" ]_vars

\* C5 amended: shutdown() sets the flag and then blocks in waitForDone: it has
\* returned only when every accepted task, queued or running when the flag was
\* set, has run to its end with its callback invoked; nothing is discarded.
C5_ShutdownWaitsForAllTasks ==
    /\ shutdownPc # "idle" => is_shutting_down
    /\ shutdownPc = "returned" =>
          \A t \in TaskIds : t < nextTask => tstate[t] = "done" /\ cbCalls[t] = 1

\* shutdown() has returned after the pool had accepted every task it can.
C5_Witness ==
    /\ shutdownPc = "returned"
    /\ nextTask > MaxTasks
    /\ \A t \in TaskIds : tstate[t] = "done"

C7_EntryIffPositive ==
    /\ [](\A tag \in DOMAIN active_tasks_by_tag :
              tag \in Tags /\ active_tasks_by_tag[tag] > 0)
    /\ [][ /\ \A tag \in Tags :
               Count(active_tasks_by_tag', tag) < Count(active_tasks_by_tag, tag) =>
                  /\ Count(active_tasks_by_tag', tag)
                         = Count(active_tasks_by_tag, tag) - 1
                  /\ wpc' = IF Count(active_tasks_by_tag', tag) = 0
                            THEN WakeAll(wpc) ELSE wpc
                  /\ Count(active_tasks_by_tag', tag) = 0
                         => ~HasTag(active_tasks_by_tag', tag)
           /\ \A t \in TaskIds :
               (tstate[t] = "finishing" /\ tstate'[t] = "done"
                    /\ ~HasTag(active_tasks_by_tag, ttag[t])) =>
                  UNCHANGED <<active_tasks_by_tag, wpc>>
         ]_vars

\* A count has reached zero: the entry is gone and a thread that was blocked
\* on the tag is awake.
C7_Witness ==
    \E w \in Waiters :
        wpc[w] = "woken" /\ wreleased[w] /\ ~HasTag(active_tasks_by_tag, wtag[w])

\* What wait_for_tagged_tasks does on entry, and what a wake-up does to the
\* blocked threads.
WaitEntryAndWakeUp(w) ==
    /\ (wpc[w] = "idle" /\ wpc'[w] # "idle") =>
          wpc'[w] = IF HasTag(active_tasks_by_tag, wtag'[w]) THEN "waiting"
                                                              ELSE "returned"
    /\ (wpc[w] = "waiting" /\ \E tag \in Tags : Removed(tag)) => wpc'[w] = "woken"
    /\ (wpc[w] = "waiting" /\ wpc'[w] # "waiting") =>
          wpc'[w] = "woken" /\ \E tag \in Tags : Removed(tag)

\* C8 as stated: the call returns at once when the tag has no entry and
\* blocks otherwise, and a thread woken because its own tag's count reached
\* zero returns from the call.
C8_ReleasedWaiterReturns ==
    [][ \A w \in Waiters :
          /\ WaitEntryAndWakeUp(w)
          /\ (wpc[w] = "woken" /\ wreleased[w]) => wpc'[w] \in {"woken", "returned"}
      ]_vars

\* C8 amended: the call returns at once when the tag has no entry and blocks
\* otherwise; when a tag's count reaches zero every blocked thread is woken;
\* a woken thread returns if its tag has no entry when it has re-acquired the
\* mutex, and blocks again if a task was submitted under the tag meanwhile.
C8_WokenWaiterRechecks ==
    [][ \A w \in Waiters :
          /\ WaitEntryAndWakeUp(w)
          /\ (wpc[w] = "woken" /\ wpc'[w] # "woken") =>
                wpc'[w] = IF HasTag(active_tasks_by_tag, wtag[w]) THEN "waiting"
                                                                   ELSE "returned"
      ]_vars

\* Two threads blocked on one tag have both been released by its removal and
\* have both returned.
C8_Witness ==
    \E v, w \in Waiters :
        /\ v # w /\ wtag[v] = wtag[w]
        /\ wpc[v] = "returned" /\ wreleased[v]
        /\ wpc[w] = "returned" /\ wreleased[w]

C10_ResultWithinBounds ==
    /\ fit.pc \in {"loop", "exit", "done"} =>
          /\ IntSize(fit.in, fit.size) \in fit.in.min_font_size..fit.in.max_font_size
          /\ fit.size >= Lo(fit.in) /\ fit.size <= Hi(fit.in)
    /\ fit.pc = "done" =>
          /\ fit.result \in fit.in.min_font_size..fit.in.max_font_size
          /\ fit.stop \in {"tolerance", "oscillation", "clamped", "iterations"}

\* A search has run into the iteration cap and has returned a size strictly
\* between the two limits.
C10_Witness ==
    /\ fit.pc = "done"
    /\ fit.stop = "iterations"
    /\ fit.result > fit.in.min_font_size /\ fit.result < fit.in.max_font_size

\* The measured width of the text at max_font_size is the budget.
BudgetIsWidthAtMax(inp) == Measure(inp, inp.max_font_size) = inp.parent_width

\* C11 as stated: whenever the budget equals the measured width at
\* max_font_size, the call returns max_font_size after zero correction steps,
\* whatever the reference width.
C11_MaxReturnedAtOnce ==
    (fit.pc = "done" /\ BudgetIsWidthAtMax(fit.in)) =>
        (fit.result = fit.in.max_font_size /\ fit.steps = 0)

\* C11 amended: when the budget equals the measured width at max_font_size
\* and is not below the reference width (so that the estimate is
\* max_font_size), the call returns max_font_size after zero correction steps
\* and one measurement.
C11_MaxReturnedAtOnceFromMaxEstimate ==
    (fit.pc = "done" /\ BudgetIsWidthAtMax(fit.in)
        /\ fit.in.parent_width >= fit.in.initial_text_width) =>
        /\ fit.result = fit.in.max_font_size
        /\ fit.steps = 0 /\ fit.iteration_count = 0
        /\ fit.stop = "tolerance"

\* Such a call has returned, with a range of more than one size and a budget
\* above the reference width.
C11_Witness ==
    /\ fit.pc = "done" /\ BudgetIsWidthAtMax(fit.in)
    /\ fit.in.parent_width > fit.in.initial_text_width
    /\ fit.in.min_font_size < fit.in.max_font_size
    /\ fit.result = fit.in.max_font_size /\ fit.steps = 0

\* The width measured at the size the search stands at.
WidthNow(f) == Measure(f.in, IntSize(f.in, f.size))

\* The last correction overshot: it decreased the size and the text is now
\* narrower than the tolerance band, or increased it and the text is now wider.
Overshot(f) ==
    /\ f.pc = "loop"
    /\ \/ f.direction = "decrease" /\ WidthNow(f) < f.in.parent_width - tolerance
       \/ f.direction = "increase" /\ WidthNow(f) > f.in.parent_width + tolerance

\* C12: when a correction has overshot, the next pass through the loop leaves
\* it without a further correction; after an overshoot of the first correction
\* the search has taken one step, within the bound of 2, and has not counted
\* max_iterations iterations.
C12_OscillationGuard ==
    [][ Overshot(fit) =>
          /\ fit'.pc = "exit" /\ fit'.stop = "oscillation"
          /\ fit'.size = fit.size /\ fit'.steps = fit.steps
          /\ fit.steps = 1 =>
                (fit'.steps <= 2 /\ fit'.iteration_count < max_iterations)
      ]_vars

\* A call has returned whose first correction overshot.
C12_Witness ==
    /\ fit.pc = "done" /\ fit.stop = "oscillation"
    /\ fit.steps = 1 /\ fit.iteration_count = 1

\* C13: the search terminates: the call returns; the loop counts at most
\* max_iterations iterations and takes at most as many correction steps, every
\* pass through the loop leaves it or counts one iteration more, and a step
\* that was clamped to min_font_size or max_font_size leaves the loop.
C13_SearchTerminates ==
    /\ [](/\ fit.iteration_count <= max_iterations
          /\ fit.steps <= max_iterations
          /\ fit.pc = "loop" => fit.iteration_count < max_iterations)
    /\ [][ fit.pc = "loop" =>
              \/ fit'.pc = "exit"
              \/ fit'.pc = "loop" /\ fit'.iteration_count = fit.iteration_count + 1
         ]_vars
    /\ [][ (fit.pc = "loop" /\ fit'.steps = fit.steps + 1
              /\ Abs(fit'.size - fit.size) # HalfStep(fit.in)) =>
              /\ fit'.pc = "exit" /\ fit'.stop = "clamped"
              /\ fit'.size \in {Lo(fit.in), Hi(fit.in)}
         ]_vars
    /\ <>(fit.pc = "done")

\* A call has returned after max_iterations iterations.
C13_Witness ==
    /\ fit.pc = "done" /\ fit.stop = "iterations"
    /\ fit.iteration_count = max_iterations /\ fit.steps = max_iterations

\* The reference: the sizes of the range whose measured width is within the
\* tolerance of the budget, by a scan of all integer sizes, and the largest.
FittingSizes(inp) ==
    {s \in inp.min_font_size..inp.max_font_size :
        Abs(Measure(inp, s) - inp.parent_width) <= tolerance}

LargestFitting(inp) ==
    CHOOSE s \in FittingSizes(inp) : \A r \in FittingSizes(inp) : r <= s

\* C14 as stated: whenever some size of the range fits, the call returns the
\* largest size that fits.
C14_ReturnsLargestFitting ==
    (fit.pc = "done" /\ FittingSizes(fit.in) # {}) =>
        fit.result = LargestFitting(fit.in)

\* C14 amended: a call that stops on the tolerance test returns a size that
\* fits; whenever some size of the range fits and the loop has not run out of
\* iterations, the call returns a size that fits; it is the largest that fits
\* when the search came down to it, and otherwise the first that fits from the
\* estimate upwards.
C14_ReturnsFirstFittingFromEstimate ==
    fit.pc = "done" =>
        LET inp == fit.in
            first == IntSize(inp, Estimate(inp))
        IN  /\ fit.stop = "tolerance" => fit.result \in FittingSizes(inp)
            /\ (FittingSizes(inp) # {} /\ fit.stop # "iterations") =>
                  /\ fit.result \in FittingSizes(inp)
                  /\ fit.direction = "decrease" => fit.result = LargestFitting(inp)
                  /\ fit.direction # "decrease" =>
                        \A s \in FittingSizes(inp) : s < first \/ s >= fit.result

\* A call has come down by two steps or more to the largest of several sizes
\* that fit.
C14_Witness ==
    /\ fit.pc = "done" /\ fit.stop = "tolerance"
    /\ fit.direction = "decrease" /\ fit.steps >= 2
    /\ Cardinality(FittingSizes(fit.in)) >= 2
    /\ fit.result = LargestFitting(fit.in)

PassTaken ==
    /\ ui.pc = "window" /\ ui' # ui
    /\ ui'.outcome # "none"
    /\ ui'.kind = ui.kind
    /\ ui'.suppress_resize_event = ui.suppress_resize_event

Present(u) == {s \in SectionNames : u.kind[s] # "none"}

\* The non-null font sizes the sections produced in the last pass.
Produced(u) == {u.sizes[s] : s \in SectionNames} \ {0}

\* C16: after a completed pass every present section carries the same font
\* size: the least of the non-null sizes the sections produced in the pass,
\* or the configured font size when none produced a value.
C16_UniformSmallestFont ==
    (ui.pc = "window" /\ ui.outcome = "completed") =>
        \A s \in Present(ui) :
            /\ \A r \in Present(ui) : ui.font[r] = ui.font[s]
            /\ IF Produced(ui) = {} THEN ui.font[s] = font_size
               ELSE /\ ui.font[s] \in Produced(ui)
                    /\ \A n \in Produced(ui) : ui.font[s] <= n

\* A pass over five sections has produced three different sizes and left the
\* least of them on every section.
C16_Witness ==
    /\ ui.pc = "window" /\ ui.outcome = "completed"
    /\ Present(ui) = SectionNames
    /\ Cardinality(Produced(ui)) >= 3
    /\ \A s \in SectionNames : \A n \in Produced(ui) : ui.font[s] <= n

\* C17 as stated: with the main-content widget absent a pass changes no box
\* size, no font size and no splitter handle width, and does not raise.
C17_AbsentMainContentAborts ==
    [][ (PassTaken /\ ui.kind["main_content"] = "none") =>
           /\ ui'.box = ui.box /\ ui'.font = ui.font /\ ui'.handle = ui.handle
           /\ ui'.outcome # "aborted"
      ]_vars

\* C18 as stated: no pass invokes calculate_scaling_factor with a reference
\* width of 0, so that none is left by a division by zero.
C18_NoZeroReferenceWidth ==
    ui.pc = "window" => (~ui.zero_ref /\ ui.outcome # "aborted")

\* A pass has fixed the width of sidebar s in the step: it has reached the
\* sidebar's font fit, which returned a size or divided by zero.
SidebarAdjusted(s) ==
    /\ PassTaken
    /\ ui.kind[s] # "none" /\ ui'.initial[s] # NoWidth
    /\ ui'.sizes[s] # 0 \/ ui'.box[s] # ui.box[s]

\* C19: a pass fixes a sidebar's width at d + max(2, int(d * 0.1)) with
\* d = int(initial_width * ratio): 110 for the initial width 200 at half the
\* configured window width; and whatever box a pass fixes, of a bar or of a
\* sidebar, exceeds by 2 or more a dimension that is not negative, so that it
\* is positive.
C19_SidebarWidthAndPaddingFloor ==
    /\ [][ \A s \in Sidebars : SidebarAdjusted(s) =>
             LET d == (ui'.initial[s] * ui'.width) \div window_size_width
                 tenth == d \div 10
             IN  /\ d >= 0
                 /\ ui'.box[s] = d + (IF tenth > 2 THEN tenth ELSE 2)
                 /\ (ui'.initial[s] = 200 /\ 2 * ui'.width = window_size_width)
                       => ui'.box[s] = 110
         ]_vars
    /\ [][ \A s \in Bars : (PassTaken /\ ui.kind[s] # "none") =>
             \E text_height \in 0..(2 * font_size) :
                 /\ text_height >= ui.font[s]
                 /\ ui'.box[s] >= text_height + 2
                 /\ ui'.box[s] <= text_height + 2 + (2 * text_height) \div 5
         ]_vars
    /\ [](ui.pc = "window" =>
             \A s \in SectionNames : ui.box[s] = 0 \/ ui.box[s] >= 2)

\* A pass has fixed the 200-pixel sidebars at 110 pixels at half the
\* configured window width, and a sidebar scaled down to 1 pixel at 3 pixels,
\* 2 of them the floor of the padding.
C19_Witness ==
    /\ ui.pc = "window" /\ ui.outcome # "none"
    /\ 2 * ui.width = window_size_width
    /\ \E s, r \in Sidebars :
          /\ ui.initial[s] = 200 /\ ui.box[s] = 110
          /\ ui.initial[r] = 3 /\ ui.box[r] = 3

\* C20 as stated: after every pass the handle width of each present splitter
\* is the configured handle width scaled by the ratio of the window width to
\* the configured width and clamped to [1, configured handle width].
C20_HandleWidthScaledAndClamped ==
    [][ PassTaken =>
          \A s \in Collapsibles : ui'.splitter[s] =>
              LET scaled == (splitter_handle_width * ui'.width) \div window_size_width
              IN  ui'.handle[s] =
                     (IF scaled < 1 THEN 1
                      ELSE IF scaled > splitter_handle_width THEN splitter_handle_width
                      ELSE scaled)
      ]_vars

\* C22: shutdown() has returned only when no accepted task is queued or
\* running; from the moment the flag is set no submission is accepted; and
\* once shutdown() has returned no task of the pool starts or runs.
C22_ShutdownQuiescesPool ==
    /\ [](shutdownPc = "returned" =>
             /\ is_shutting_down
             /\ \A t \in TaskIds : tstate[t] \in {"unused", "done"})
    /\ [][ is_shutting_down =>
             /\ is_shutting_down'
             /\ nextTask' = nextTask
             /\ \A t \in TaskIds : tstate[t] = "unused" => tstate'[t] = "unused" ]_vars
    /\ [][ shutdownPc = "returned" => tstate' = tstate ]_vars

\* shutdown() has returned after a task had run to its end, and a submission
\* made after the flag was set has been turned away.
C22_Witness ==
    /\ shutdownPc = "returned"
    /\ \E t \in TaskIds : tstate[t] = "done" /\ cbCalls[t] = 1
    /\ lastCall.op = "submit_task" /\ lastCall.flag /\ lastCall.outcome = "None"
    /\ nextTask <= MaxTasks

\* The tasks accepted under a tag whose completion callback has not run.
AwaitingCallback(tag) == {t \in TaskIds : Outstanding(tstate, t) /\ ttag[t] = tag}

\* C23: when every task carries the pool's own callback, the count of every
\* tag is the number of tasks accepted under it whose callback has not yet
\* run; a task is counted in the step that accepts it, before it can start.
C23_CountIsTasksAwaitingCallback ==
    /\ [](\A tag \in Tags :
             Count(active_tasks_by_tag, tag) = Cardinality(AwaitingCallback(tag)))
    /\ [][ \A t \in TaskIds :
             (tstate[t] = "unused" /\ tstate'[t] # "unused" /\ ttag'[t] # NoTag) =>
                 /\ tstate'[t] = "queued"
                 /\ Count(active_tasks_by_tag', ttag'[t])
                       = Count(active_tasks_by_tag, ttag'[t]) + 1 ]_vars

\* Two tasks of one tag are counted, one of them in its work function.
C23_Witness ==
    \E tag \in Tags :
        /\ Count(active_tasks_by_tag, tag) = 2
        /\ \E t, u \in AwaitingCallback(tag) : tstate[t] = "running" /\ tstate[u] = "queued"

\* C26 as stated: a tagged task leaves the tag's count when it completes,
\* whatever callback it was given: the step that ends its run() takes one off
\* the count, and when no accepted task is left to run no tag has an entry, so
\* that no thread stays blocked in wait_for_tagged_tasks.
C26_CustomCallbackTaskLeavesCount ==
    /\ [][ \A t \in TaskIds :
             (tstate[t] = "finishing" /\ tstate'[t] = "done" /\ ttag[t] # NoTag) =>
                 Count(active_tasks_by_tag', ttag[t])
                     = Count(active_tasks_by_tag, ttag[t]) - 1 ]_vars
    /\ []((\A t \in TaskIds : ~Outstanding(tstate, t)) =>
             /\ active_tasks_by_tag = EmptyMap
             /\ \A w \in Waiters : wpc[w] # "waiting")

\* C28 as stated: a returned size above the minimum never makes the text
\* wider than the parent width plus the tolerance.
C28_NoOverflowAboveMinimum ==
    (fit.pc = "done" /\ fit.result > fit.in.min_font_size) =>
        Measure(fit.in, fit.result) <= fit.in.parent_width + tolerance

\* C28 amended: the width of the text at the returned size is within the
\* tolerance of the parent width when the search stopped on the tolerance
\* test, and below the parent width less the tolerance when the oscillation
\* guard stopped it on the way down; a search stopped otherwise (by the
\* oscillation guard on the way up, by the clamp or by the iteration cap) may
\* return a size above the minimum at which the text overflows.
C28_NoOverflowAfterToleranceOrDescent ==
    fit.pc = "done" =>
        LET measured == Measure(fit.in, fit.result)
            budget == fit.in.parent_width
        IN  /\ fit.stop = "tolerance" =>
                  (measured <= budget + tolerance /\ measured >= budget - tolerance)
            /\ (fit.stop = "oscillation" /\ fit.direction = "decrease") =>
                  measured < budget - tolerance

\* A search has come down to a size above the minimum at which the text is
\* wider than the parent width, by no more than the tolerance.
C28_Witness ==
    /\ fit.pc = "done" /\ fit.stop = "tolerance" /\ fit.direction = "decrease"
    /\ fit.result > fit.in.min_font_size
    /\ Measure(fit.in, fit.result) > fit.in.parent_width

\* C24 as stated: a pass fits every section of the active configuration that
\* has a text and lets it contribute a font size, and a section that is not
\* present contributes none; a sidebar added by update_ui is width-fitted.
C24_EveryPresentSectionContributes ==
    [][ PassTaken =>
          \A s \in SectionNames :
              /\ ui.kind[s] \notin {"none", "widget"} => ui'.sizes[s] # 0
              /\ ui.kind[s] = "none" => ui'.sizes[s] = 0
              /\ (s \in Sidebars /\ ui.kind[s] # "none") => ui'.box[s] # 0
      ]_vars

\* C21: a status text reaches the label only through the status_updated
\* signal: the step of a background task leaves the label as it is, the label's
\* text and tooltip change only in a call of the slot update_status_bar on the
\* UI thread, and a text that appears on the label is the one of the oldest
\* queued emission, which that step consumes.
C21_StatusOnlyThroughSignal ==
    /\ [](sbm.pc = "manager" => sbm.writer = "ui")
    /\ [][ (sbm'.last_op = "task" /\ sbm' # sbm) => sbm'.label = sbm.label ]_vars
    /\ [][ sbm'.label # sbm.label => sbm'.last_op \in {"signal", "resize"} ]_vars
    /\ [][ (sbm'.label.text # sbm.label.text /\ sbm'.label.text # "") =>
              /\ sbm.emitted # <<>>
              /\ Head(sbm.emitted)[1] = sbm'.label.text
              /\ sbm'.emitted = Tail(sbm.emitted) ]_vars

\* The text of a requested update has been emitted by its task and shown by
\* the slot, while a later task is still in the pool.
C21_Witness ==
    /\ sbm.pc = "manager" /\ sbm.last_op = "signal"
    /\ sbm.label.text \in Texts /\ sbm.label.tooltip = sbm.label.text
    /\ \E k \in StatusTasks : sbm.task[k] = "running"

\* Every requested update has run its task and every emission has been
\* delivered, the latest change of the label being such a delivery.
StatusSettled ==
    /\ sbm.pc = "manager" /\ sbm.emitted = <<>> /\ sbm.last_op = "signal"
    /\ \A k \in StatusTasks : sbm.task[k] \in {"unused", "done"}

\* C29 as stated: once the tasks of the updates requested have completed and
\* their signals have been delivered, the label shows the text requested last.
C29_LabelShowsLatestRequest ==
    StatusSettled => sbm.label.text = sbm.requested

\* C30 as stated: a call of update_status_bar() by resizeEvent or
\* on_resize_timeout leaves the label's text and tooltip as they were.
C30_ResizeKeepsStatusText ==
    [][ (sbm'.last_op = "resize" /\ sbm' # sbm) => sbm'.label = sbm.label ]_vars

\* A step that is one resize notification.
ResizeNotified == rsz'.resizes # rsz.resizes

\* C25 as stated: each resize notification re-arms the 50 ms timer.
C25_EveryResizeArmsTimer ==
    [][ ResizeNotified => rsz'.timer = TimerStart(ResizeTimer, resize_delay) ]_vars

\* C25: each resize notification after the first one (which resizeEvent
\* swallows) leaves the single-shot timer running for the full 50 ms with no
\* timer-driven recompute counted; since the latest such notification at most
\* one call of on_resize_timeout has run, none while the timer is pending, and
\* the one that has run laid the window out at its current size; and a pending
\* timer leads to that one call.
C25_DebounceAfterFirstResize ==
    /\ [][ (ResizeNotified /\ ~rsz.suppress_resize_event) =>
              /\ rsz'.timer = TimerStart(ResizeTimer, resize_delay)
              /\ rsz'.fired = 0 ]_vars
    /\ [](rsz.pc = "window" =>
              /\ rsz.fired <= 1
              /\ (rsz.timer.active => rsz.fired = 0)
              /\ (rsz.fired = 1 => rsz.laid = rsz.size /\ ~rsz.timer.active))
    /\ ((rsz.pc = "window" /\ rsz.timer.active) ~>
            (rsz.fired = 1 /\ ~rsz.timer.active /\ rsz.laid = rsz.size))

\* Two resize events of a burst have re-armed the timer and its timeout has
\* run the one recompute at the last size.
C25_Witness ==
    /\ rsz.pc = "window" /\ rsz.resizes = MaxResizes /\ rsz.last_op = "timeout"
    /\ rsz.fired = 1 /\ ~rsz.timer.active /\ rsz.laid = rsz.size

\* A thread blocked in the constructor of a QMutexLocker.
Blocked(th) == lk.pc = "locks" /\ lk.thr[th] \in {"sd_lock", "tag_lock"}

\* C27: the thread that holds the tag mutex is never blocked on the shutdown
\* mutex, and a step that acquires the tag mutex while the thread holds the
\* shutdown mutex is the only nesting; a thread waiting on the condition and
\* the thread in waitForDone hold no mutex; and every thread blocked on a
\* mutex goes on to hold it: a blocked thread leaves its place only by being
\* granted the mutex, and again and again no thread is blocked.
C27_NoDeadlockOnMutexes ==
    /\ [](lk.pc = "locks" =>
            \A th \in LockThreads :
               /\ (lk.tag_owner = th => lk.thr[th] = "tag_held")
               /\ (lk.sd_owner = th =>
                      lk.thr[th] \in {"sd_held", "tag_lock", "tag_held", "starting"})
               /\ (lk.thr[th] \in {"waiting", "wait_pool"} =>
                      lk.tag_owner # th /\ lk.sd_owner # th)
               /\ (lk.thr[th] = "sd_lock" => lk.tag_owner # th))
    /\ []<>(\A th \in LockThreads : ~Blocked(th))

\* A submitter that holds the shutdown mutex is blocked on the tag mutex,
\* which a pool thread holds in its callback, while a waiter waits on the
\* condition and shutdown is blocked on the shutdown mutex.
C27_Witness ==
    /\ lk.pc = "locks"
    /\ \E i \in Submitters :
          /\ lk.sd_owner = SubmitThread(i) /\ lk.thr[SubmitThread(i)] = "tag_lock"
          /\ \E j \in Submitters : lk.tag_owner = TaskThread(j)
    /\ \E w \in LockWaiters : lk.thr[WaitThread(w)] = "waiting"
    /\ lk.thr[ShutdownThread] = "sd_lock"
====
